---- MODULE Spec2Model ----
(***************************************************************************)
(* BucketedTimeSeries (bucketedTimeSeries.go): a rolling window of one     *)
(* active bucket (a compressed stream) and n historical block ids.         *)
(*                                                                         *)
(* Spec      every public operation as one atomic step (each runs under    *)
(*           the per-series lock for its whole body, or is a single field  *)
(*           access), with a record of the last call.                      *)
(* SpecSlots the same steps, with a record of the id written for each      *)
(*           bucket.                                                       *)
(* SpecRetry Put and SetCurrentBucket with a caller that retries a Put     *)
(*           whose Store failed.                                           *)
(* SpecConc  the same operations statement by statement, run by several    *)
(*           threads over the sync.RWMutex.                                *)
(***************************************************************************)
EXTENDS Integers, Sequences, FiniteSets, TLC

\* ---------------------------------------------------------------- bounds
\* Largest bucket number. uint32 arithmetic is scaled to this range: the
\* largest bucket number stands for math.MaxUint32, so MaxBucket + 1 wraps
\* to 0 exactly as 4294967295 + 1 does in the program.
MaxBucket == 3
\* Largest historical capacity n handed to Reset.
MaxNumBuckets == 2
\* Most points appended to one active bucket.
MaxPoints == 1
\* Largest timestamp of a data point.
MaxTs == 1
\* Largest block id the Block Store hands out.
MaxId == 1
\* Largest unsaturated value queriedBucketsAgo_ is followed to.
MaxAge == 1
\* Number of threads sharing one series.
NumThreads == 2
\* Largest bucket number the threads pass.
MaxThreadBucket == 3

\* ------------------------------------------------------------- constants
MaxUint8 == 255
MaxUint16 == 65535
INVALID_ID == 0
DEFAULT_CATEGORY == 0
MinTimestampDelta == 1

Buckets == 0..MaxBucket
Timestamps == 1..MaxTs
BlockIds == 1..MaxId
\* A nil *uint16 category argument.
NilCategory == -1
Categories == {DEFAULT_CATEGORY, 1}
Threads == 1..NumThreads
\* What the threads pass: any bucket up to MaxThreadBucket, one timestamp, no
\* category, and the read range 0..MaxThreadBucket.
ThreadBuckets == 0..MaxThreadBucket
ThreadTimestamps == {MaxTs}
ThreadCategories == {NilCategory}

Uint32(x) == x % (MaxBucket + 1)
Uint16(x) == x % (MaxUint16 + 1)

MinUint32(a, b) == IF a < b THEN a ELSE b
MaxUint32(a, b) == IF a > b THEN a ELSE b

VARIABLES
  stream_,            \* [Stream: the appended timestamps, ExtraData: category]
  count_,             \* points in the active bucket
  current_,           \* active bucket number, 0 = never opened
  queriedBucketsAgo_, \* saturating uint8
  blocks_,            \* slot -> block id, slots 0..numBuckets-1
  numBuckets,         \* n of Reset(n) and of storage.NumBuckets()
  history,            \* which history is kept: "calls" (last) or "slots" (recorded)
  recorded,           \* history: bucket -> id last written to a slot on its behalf
  last,               \* history: the last call, its outcome and the state before it
  pc,                 \* thread -> the statement it is at
  loc,                \* thread -> its arguments and local variables
  writer,             \* RWMutex: the thread holding it exclusively, or 0
  readers,            \* RWMutex: the threads holding it shared
  committed,          \* history: the fields as the last exclusive holder left them
  obs,                \* history: thread -> the fields as it found them at RLock
  sinceQueried        \* history: increments written since the last SetQueried, -1 before any

seqVars == <<history, recorded, last>>

concVars == <<pc, loc, writer, readers, committed, obs, sinceQueried>>

vars == <<stream_, count_, current_, queriedBucketsAgo_, blocks_, numBuckets,
          history, recorded, last, pc, loc, writer, readers, committed, obs,
          sinceQueried>>

\* The fields of the struct as one value.
Self == [stream_ |-> stream_, count_ |-> count_, current_ |-> current_,
         queriedBucketsAgo_ |-> queriedBucketsAgo_, blocks_ |-> blocks_]

\* ------------------------------------------------ Compressed Point Stream
SeriesReset(s) == [s EXCEPT !.Stream = <<>>]

\* Append(timestamp, value, minTimestampDelta): rejects a point closer than
\* the minimum delta to the previous point of the same stream.
SeriesAppendOk(s, ts) ==
  \/ Len(s.Stream) = 0
  \/ ts - s.Stream[Len(s.Stream)] >= MinTimestampDelta

SeriesAppend(s, ts) == [s EXCEPT !.Stream = Append(@, ts)]

\* ------------------------------------------------------------ Block Store
\* Store: fails, or returns some valid block id.
Store(position, data, count) ==
  {[ok |-> FALSE, id |-> INVALID_ID]} \cup {[ok |-> TRUE, id |-> id] : id \in BlockIds}

\* Fetch: the invalid id is never found; a valid id is found or not.
Fetch(position, id) ==
  IF id = INVALID_ID THEN {FALSE} ELSE {TRUE, FALSE}

\* The block a successful Fetch(position, id) yields.
FetchedBlock(position, id) == [Data |-> <<>>, Count |-> 0, ref |-> <<position, id>>]

\* ------------------------------------------------------------------ Reset
Reset(n) ==
  [stream_ |-> [Stream |-> <<>>, ExtraData |-> DEFAULT_CATEGORY],
   count_ |-> 0,
   current_ |-> 0,
   queriedBucketsAgo_ |-> MaxUint8,
   blocks_ |-> [i \in 0..(n - 1) |-> INVALID_ID]]

\* ------------------------------------------------------------------- open
\* A call in progress: the struct, the error to return, and the Store calls
\* and slot writes made so far.
Call(b) == [b |-> b, err |-> "", stores |-> <<>>, writes |-> <<>>]

StoreCall(b, o) ==
  [bucket |-> b.current_, data |-> b.stream_.Stream, count |-> b.count_,
   ok |-> o.ok, id |-> o.id]

StoreErrorAfterReset(r, o) ==
  [r EXCEPT !.err = "store", !.stores = Append(@, StoreCall(r.b, o)),
            !.b.count_ = 0, !.b.stream_ = SeriesReset(@)]

StoreErrorSkipsBucket(r, o) ==
  [r EXCEPT !.err = "store", !.stores = Append(@, StoreCall(r.b, o)),
            !.b.count_ = 0, !.b.stream_ = SeriesReset(@),
            !.b.current_ = Uint32(@ + 1)]

\* if err != nil { return err }
StoreError(r, o) ==
  [r EXCEPT !.err = "store", !.stores = Append(@, StoreCall(r.b, o))]

StoreDone(r, o) == [r EXCEPT !.stores = Append(@, StoreCall(r.b, o))]

Age(q) == IF q < MaxUint8 THEN q + 1 ELSE q

RotateNextSlot(r, blockId, n) ==
  [r EXCEPT !.b.blocks_[(r.b.current_ + 1) % n] = blockId,
            !.b.count_ = 0,
            !.b.stream_ = SeriesReset(@),
            !.b.current_ = Uint32(@ + 1),
            !.b.queriedBucketsAgo_ = Age(@),
            !.writes = Append(@, [bucket |-> r.b.current_, id |-> blockId])]

\* One pass of the loop body after blockId is known.
Rotate(r, blockId, n) ==
  [r EXCEPT !.b.blocks_[r.b.current_ % n] = blockId,
            !.b.count_ = 0,
            !.b.stream_ = SeriesReset(@),
            !.b.current_ = Uint32(@ + 1),
            !.b.queriedBucketsAgo_ = Age(@),
            !.writes = Append(@, [bucket |-> r.b.current_, id |-> blockId])]

CopyOutAlways(b) == TRUE

\* if b.count_ > 0: copy out the active data.
CopyOut(b) == b.count_ > 0

RECURSIVE openLoop(_, _, _)
openLoop(r, next, n) ==
  IF r.b.current_ = next THEN {r}
  ELSE IF CopyOut(r.b)
       THEN UNION { IF o.ok THEN openLoop(Rotate(StoreDone(r, o), o.id, n), next, n)
                            ELSE {StoreError(r, o)}
                    : o \in Store(r.b.current_, r.b.stream_.Stream, r.b.count_) }
       ELSE openLoop(Rotate(r, INVALID_ID, n), next, n)

openAlwaysLoop(r, next, n) == openLoop(r, next, n)

open(r, next, n) ==
  IF r.b.current_ = 0
  THEN {[r EXCEPT !.b.current_ = next]}
  ELSE openLoop(r, next, n)

\* -------------------------------------------------------------------- Put
InvalidBucketOffByOne(i, current) == i + 1 < current

InvalidBucket(i, current) == i < current

PutAppendNoCount(r, ts, category) ==
  IF r.err # "" THEN r
  ELSE IF ~SeriesAppendOk(r.b.stream_, ts) THEN [r EXCEPT !.err = "append"]
  ELSE [r EXCEPT !.b.stream_ =
                   [SeriesAppend(@, ts) EXCEPT !.ExtraData =
                      IF category # NilCategory THEN category ELSE @]]

\* Append, category and count, after any rotation.
PutAppend(r, ts, category) ==
  IF r.err # "" THEN r
  ELSE IF ~SeriesAppendOk(r.b.stream_, ts) THEN [r EXCEPT !.err = "append"]
  ELSE [r EXCEPT !.b.stream_ =
                   [SeriesAppend(@, ts) EXCEPT !.ExtraData =
                      IF category # NilCategory THEN category ELSE @],
                 !.b.count_ = Uint16(@ + 1)]

PutResults(b, i, ts, category, n) ==
  IF InvalidBucket(i, b.current_)
  THEN {[Call(b) EXCEPT !.err = "invalid bucket"]}
  ELSE { PutAppend(r, ts, category) :
           r \in IF i > b.current_ THEN open(Call(b), i, n) ELSE {Call(b)} }

\* -------------------------------------------------------------------- Get
getCurrentBeginOnly(begin, end, current) == begin <= current

getCurrent(begin, end, current) == begin <= current /\ end >= current

clampEnd(end, current) ==
  IF current >= 1 THEN MinUint32(end, current - 1) ELSE MinUint32(end, 0)

clampBegin(begin, current, n) ==
  IF current >= n THEN MaxUint32(begin, current - n) ELSE MaxUint32(begin, 0)

\* A read in progress: the blocks collected and the Fetch calls made.
RECURSIVE readLoop(_, _, _, _, _)
readLoop(i, end, b, n, acc) ==
  IF i > end THEN {acc}
  ELSE UNION { readLoop(i + 1, end, b, n,
                  [out |-> IF ok THEN Append(acc.out, FetchedBlock(i, b.blocks_[i % n]))
                                 ELSE acc.out,
                   fetches |-> Append(acc.fetches,
                                 [bucket |-> i, id |-> b.blocks_[i % n], ok |-> ok])])
               : ok \in Fetch(i, b.blocks_[i % n]) }

LiveBlock(b) == [Data |-> b.stream_.Stream, Count |-> b.count_, ref |-> <<>>]

GetResults(b, begin, end, n) ==
  { [out |-> IF getCurrent(begin, end, b.current_)
             THEN Append(h.out, LiveBlock(b)) ELSE h.out,
     fetches |-> h.fetches]
    : h \in readLoop(clampBegin(begin, b.current_, n), clampEnd(end, b.current_),
                     b, n, [out |-> <<>>, fetches |-> <<>>]) }

\* ---------------------------------------------------------- HasDataPoints
hasDataPoints(b, n) ==
  \/ b.count_ > 0
  \/ \E i \in 0..(n - 1) : b.blocks_[i] # INVALID_ID

\* ------------------------------------------------------- the atomic steps
NoCall == [op |-> "Reset", i |-> 0, j |-> 0, ts |-> 0, category |-> NilCategory,
           err |-> "", stores |-> <<>>, writes |-> <<>>, fetches |-> <<>>,
           out |-> <<>>, ret |-> 0]

SetSelf(b) ==
  /\ stream_' = b.stream_
  /\ count_' = b.count_
  /\ current_' = b.current_
  /\ queriedBucketsAgo_' = b.queriedBucketsAgo_
  /\ blocks_' = b.blocks_

RECURSIVE Record(_, _)
Record(rec, writes) ==
  IF writes = <<>> THEN rec
  ELSE Record([rec EXCEPT ![Head(writes).bucket] = Head(writes).id], Tail(writes))

\* No call's outcome is waiting for its caller.
Rest == NoCall @@ [pre |-> Reset(numBuckets)]

\* A call is made once the outcome of the call before it was taken.
Ready == last = Rest

\* The two histories are kept one at a time.
Note(call) ==
  last' = IF history = "calls" THEN call @@ [pre |-> Self] ELSE last

Mark(writes) ==
  recorded' = IF history = "slots" THEN Record(recorded, writes) ELSE recorded

\* queriedBucketsAgo_ is followed up to MaxAge, and at its saturated value.
Followed(q) == q <= MaxAge \/ q = MaxUint8

InitSelf ==
  /\ numBuckets \in 1..MaxNumBuckets
  /\ stream_ = Reset(numBuckets).stream_
  /\ count_ = Reset(numBuckets).count_
  /\ current_ = Reset(numBuckets).current_
  /\ queriedBucketsAgo_ = Reset(numBuckets).queriedBucketsAgo_
  /\ blocks_ = Reset(numBuckets).blocks_
  /\ recorded = [k \in Buckets |-> INVALID_ID]
  /\ last = Rest

\* The fields Get and HasDataPoints read.
Snapshot == <<current_, count_, stream_, blocks_>>

Idle == [next |-> 0, ts |-> 0, category |-> NilCategory, append |-> FALSE,
         blockId |-> INVALID_ID, q |-> 0, i |-> 0, end |-> 0]

InitThreads ==
  /\ pc = [t \in Threads |-> "idle"]
  /\ loc = [t \in Threads |-> Idle]
  /\ writer = 0
  /\ readers = {}
  /\ committed = Snapshot
  /\ obs = [t \in Threads |-> <<>>]
  /\ sinceQueried = -1

Init == InitSelf /\ InitThreads /\ history = "calls"

InitSlots == InitSelf /\ InitThreads /\ history = "slots"

Put(i, ts, category) ==
  /\ Ready
  /\ \E r \in PutResults(Self, i, ts, category, numBuckets) :
       /\ r.b.count_ <= MaxPoints
       /\ Followed(r.b.queriedBucketsAgo_)
       /\ SetSelf(r.b)
       /\ Mark(r.writes)
       /\ Note([NoCall EXCEPT !.op = "Put", !.i = i, !.ts = ts,
                     !.category = category, !.err = r.err,
                     !.stores = r.stores, !.writes = r.writes])
  /\ UNCHANGED <<numBuckets, history>>
  /\ UNCHANGED concVars

SetCurrentBucket(currentBucket) ==
  /\ Ready
  /\ \E r \in IF current_ < currentBucket
              THEN open(Call(Self), currentBucket, numBuckets) ELSE {Call(Self)} :
       /\ Followed(r.b.queriedBucketsAgo_)
       /\ SetSelf(r.b)
       /\ Mark(r.writes)
       /\ Note([NoCall EXCEPT !.op = "SetCurrentBucket", !.i = currentBucket,
                     !.err = r.err, !.stores = r.stores, !.writes = r.writes])
  /\ UNCHANGED <<numBuckets, history>>
  /\ UNCHANGED concVars

SetQueried ==
  /\ Ready
  /\ queriedBucketsAgo_' = 0
  /\ Note([NoCall EXCEPT !.op = "SetQueried"])
  /\ UNCHANGED <<stream_, count_, current_, blocks_, numBuckets, history, recorded>>
  /\ UNCHANGED concVars

SetDataBlock(position, n, id) ==
  /\ Ready
  /\ IF position >= current_
     THEN /\ current_' = Uint32(position + 1)
          /\ count_' = 0
          /\ stream_' = SeriesReset(stream_)
     ELSE UNCHANGED <<current_, count_, stream_>>
  /\ blocks_' = [blocks_ EXCEPT ![position % n] = id]
  /\ Mark(<<[bucket |-> position, id |-> id]>>)
  /\ Note([NoCall EXCEPT !.op = "SetDataBlock", !.i = position, !.j = id,
                !.writes = <<[bucket |-> position, id |-> id]>>])
  /\ UNCHANGED <<queriedBucketsAgo_, numBuckets, history>>
  /\ UNCHANGED concVars

Get(begin, end) ==
  /\ Ready
  /\ \E g \in GetResults(Self, begin, end, numBuckets) :
       Note([NoCall EXCEPT !.op = "Get", !.i = begin, !.j = end,
                  !.fetches = g.fetches, !.out = g.out])
  /\ UNCHANGED <<stream_, count_, current_, queriedBucketsAgo_, blocks_,
                 numBuckets, history, recorded>>
  /\ UNCHANGED concVars

HasDataPoints ==
  /\ Ready
  /\ Note([NoCall EXCEPT !.op = "HasDataPoints",
                !.ret = IF hasDataPoints(Self, numBuckets) THEN 1 ELSE 0])
  /\ UNCHANGED <<stream_, count_, current_, queriedBucketsAgo_, blocks_,
                 numBuckets, history, recorded>>
  /\ UNCHANGED concVars

GetQueriedBucketsAgo ==
  /\ Ready
  /\ Note([NoCall EXCEPT !.op = "GetQueriedBucketsAgo",
                !.ret = queriedBucketsAgo_])
  /\ UNCHANGED <<stream_, count_, current_, queriedBucketsAgo_, blocks_,
                 numBuckets, history, recorded>>
  /\ UNCHANGED concVars

GetCategory ==
  /\ Ready
  /\ Note([NoCall EXCEPT !.op = "GetCategory", !.ret = stream_.ExtraData])
  /\ UNCHANGED <<stream_, count_, current_, queriedBucketsAgo_, blocks_,
                 numBuckets, history, recorded>>
  /\ UNCHANGED concVars

SetCategory(category) ==
  /\ Ready
  /\ stream_' = [stream_ EXCEPT !.ExtraData = category]
  /\ Note([NoCall EXCEPT !.op = "SetCategory", !.category = category])
  /\ UNCHANGED <<count_, current_, queriedBucketsAgo_, blocks_, numBuckets, history, recorded>>
  /\ UNCHANGED concVars

\* The caller takes the outcome of its call.
Returned ==
  /\ last # Rest
  /\ last' = Rest
  /\ UNCHANGED <<stream_, count_, current_, queriedBucketsAgo_, blocks_,
                 numBuckets, history, recorded>>
  /\ UNCHANGED concVars

Calls ==
  \/ \E i \in Buckets, ts \in Timestamps, c \in {NilCategory, 1} : Put(i, ts, c)
  \/ \E i \in Buckets : SetCurrentBucket(i)
  \/ SetQueried
  \/ \E p \in Buckets, id \in {INVALID_ID} \cup BlockIds : SetDataBlock(p, numBuckets, id)
  \/ \E b \in Buckets, e \in Buckets : Get(b, e)
  \/ HasDataPoints
  \/ GetQueriedBucketsAgo
  \/ GetCategory
  \/ \E c \in Categories : SetCategory(c)

Next == Calls \/ Returned

Spec == Init /\ [][Next]_vars

\* Without the record of the last call there is no outcome to take.
SpecSlots == InitSlots /\ [][Calls]_vars

\* ------------------------------------------- a caller that retries
\* The last Put, or its retry, returned the error of a failed Store.
Failed == last.op \in {"Put", "Retry"} /\ last.err = "store"

\* The caller takes an outcome it does not retry.
Taken == ~Failed /\ Returned

\* The caller makes the failed Put again, with the same arguments.
Retry ==
  /\ Failed
  /\ \E r \in PutResults(Self, last.i, last.ts, last.category, numBuckets) :
       /\ SetSelf(r.b)
       /\ Mark(r.writes)
       /\ Note([NoCall EXCEPT !.op = "Retry", !.i = last.i, !.ts = last.ts,
                     !.category = last.category, !.err = r.err,
                     !.stores = r.stores, !.writes = r.writes])
  /\ UNCHANGED <<numBuckets, history>>
  /\ UNCHANGED concVars

\* A retry during which Store does not fail.
RetryStored == Retry /\ last'.err # "store"

NextRetry ==
  \/ \E i \in Buckets, ts \in Timestamps, c \in {NilCategory, 1} : Put(i, ts, c)
  \/ \E i \in Buckets : SetCurrentBucket(i)
  \/ SetQueried
  \/ Taken
  \/ Retry

\* Store does not fail forever: a retry with a Store that succeeds is
\* eventually made.
SpecRetry == Init /\ [][NextRetry]_vars /\ WF_vars(RetryStored)

\* ------------------------------------------- the statements, by thread
Goto(t, label) == pc' = [pc EXCEPT ![t] = label]

Local(t, l) == loc' = [loc EXCEPT ![t] = l]

selfVars == <<stream_, count_, current_, queriedBucketsAgo_, blocks_>>

lockVars == <<writer, readers, committed, obs>>

\* sync.RWMutex: Lock waits for the writer and for every reader, RLock for
\* the writer.
LockFree == writer = 0 /\ readers = {}

RLockFree == writer = 0

PutLockShared == RLockFree

\* b.Lock() of Put
PutLockReady == LockFree

PutLock(t, i, ts, category) ==
  /\ pc[t] = "idle"
  /\ PutLockReady
  /\ (i = current_ \/ current_ = 0) => count_ < MaxPoints
  /\ writer' = t
  /\ Goto(t, "put")
  /\ Local(t, [Idle EXCEPT !.next = i, !.ts = ts, !.category = category,
                           !.append = TRUE])
  /\ UNCHANGED <<selfVars, numBuckets, seqVars, readers, committed, obs, sinceQueried>>

PutCheck(t) ==
  /\ pc[t] = "put"
  /\ Goto(t, IF InvalidBucket(loc[t].next, current_) THEN "unlock"
             ELSE IF loc[t].next > current_ THEN "open" ELSE "append")
  /\ UNCHANGED <<selfVars, numBuckets, seqVars, loc, lockVars, sinceQueried>>

SetCurrentBucketLock(t, currentBucket) ==
  /\ pc[t] = "idle"
  /\ LockFree
  /\ writer' = t
  /\ Goto(t, "setCurrent")
  /\ Local(t, [Idle EXCEPT !.next = currentBucket])
  /\ UNCHANGED <<selfVars, numBuckets, seqVars, readers, committed, obs, sinceQueried>>

SetCurrentBucketCheck(t) ==
  /\ pc[t] = "setCurrent"
  /\ Goto(t, IF current_ < loc[t].next THEN "open" ELSE "unlock")
  /\ UNCHANGED <<selfVars, numBuckets, seqVars, loc, lockVars, sinceQueried>>

\* Where open returns to without an error.
Opened(t) == IF loc[t].append THEN "append" ELSE "unlock"

OpenEnter(t) ==
  /\ pc[t] = "open"
  /\ IF current_ = 0
     THEN current_' = loc[t].next /\ Goto(t, Opened(t))
     ELSE UNCHANGED current_ /\ Goto(t, "loop")
  /\ UNCHANGED <<stream_, count_, queriedBucketsAgo_, blocks_, numBuckets, seqVars,
                 loc, lockVars, sinceQueried>>

OpenStore(t) ==
  /\ pc[t] = "loop"
  /\ IF current_ = loc[t].next
     THEN Goto(t, Opened(t)) /\ UNCHANGED loc
     ELSE IF count_ > 0
          THEN \E o \in Store(current_, stream_.Stream, count_) :
                 IF o.ok
                 THEN Goto(t, "slot") /\ Local(t, [loc[t] EXCEPT !.blockId = o.id])
                 ELSE Goto(t, "unlock") /\ UNCHANGED loc
          ELSE Goto(t, "slot") /\ Local(t, [loc[t] EXCEPT !.blockId = INVALID_ID])
  /\ UNCHANGED <<selfVars, numBuckets, seqVars, lockVars, sinceQueried>>

OpenSlot(t) ==
  /\ pc[t] = "slot"
  /\ blocks_' = [blocks_ EXCEPT ![current_ % numBuckets] = loc[t].blockId]
  /\ Goto(t, "count")
  /\ UNCHANGED <<stream_, count_, current_, queriedBucketsAgo_, numBuckets, seqVars,
                 loc, lockVars, sinceQueried>>

OpenCount(t) ==
  /\ pc[t] = "count"
  /\ count_' = 0
  /\ Goto(t, "reset")
  /\ UNCHANGED <<stream_, current_, queriedBucketsAgo_, blocks_, numBuckets, seqVars,
                 loc, lockVars, sinceQueried>>

OpenReset(t) ==
  /\ pc[t] = "reset"
  /\ stream_' = SeriesReset(stream_)
  /\ Goto(t, "advance")
  /\ UNCHANGED <<count_, current_, queriedBucketsAgo_, blocks_, numBuckets, seqVars,
                 loc, lockVars, sinceQueried>>

OpenAdvance(t) ==
  /\ pc[t] = "advance"
  /\ current_' = Uint32(current_ + 1)
  /\ Goto(t, "age")
  /\ UNCHANGED <<stream_, count_, queriedBucketsAgo_, blocks_, numBuckets, seqVars,
                 loc, lockVars, sinceQueried>>

\* b.queriedBucketsAgo_++ is a load and a store.
OpenAgeLoad(t) ==
  /\ pc[t] = "age"
  /\ IF queriedBucketsAgo_ < MaxUint8
     THEN Goto(t, "aged") /\ Local(t, [loc[t] EXCEPT !.q = queriedBucketsAgo_])
     ELSE Goto(t, "loop") /\ UNCHANGED loc
  /\ UNCHANGED <<selfVars, numBuckets, seqVars, lockVars, sinceQueried>>

OpenAgeStore(t) ==
  /\ pc[t] = "aged"
  /\ queriedBucketsAgo_' = (loc[t].q + 1) % (MaxUint8 + 1)
  /\ sinceQueried' = IF sinceQueried >= 0 THEN sinceQueried + 1 ELSE sinceQueried
  /\ Goto(t, "loop")
  /\ UNCHANGED <<stream_, count_, current_, blocks_, numBuckets, seqVars, loc, lockVars>>

PutAppendPoint(t) ==
  /\ pc[t] = "append"
  /\ IF SeriesAppendOk(stream_, loc[t].ts)
     THEN stream_' = SeriesAppend(stream_, loc[t].ts) /\ Goto(t, "category")
     ELSE UNCHANGED stream_ /\ Goto(t, "unlock")
  /\ UNCHANGED <<count_, current_, queriedBucketsAgo_, blocks_, numBuckets, seqVars,
                 loc, lockVars, sinceQueried>>

PutCategory(t) ==
  /\ pc[t] = "category"
  /\ stream_' = IF loc[t].category # NilCategory
                THEN [stream_ EXCEPT !.ExtraData = loc[t].category] ELSE stream_
  /\ Goto(t, "increment")
  /\ UNCHANGED <<count_, current_, queriedBucketsAgo_, blocks_, numBuckets, seqVars,
                 loc, lockVars, sinceQueried>>

PutCount(t) ==
  /\ pc[t] = "increment"
  /\ count_' = Uint16(count_ + 1)
  /\ Goto(t, "unlock")
  /\ UNCHANGED <<stream_, current_, queriedBucketsAgo_, blocks_, numBuckets, seqVars,
                 loc, lockVars, sinceQueried>>

\* The deferred b.Unlock() of Put and SetCurrentBucket.
Unlock(t) ==
  /\ pc[t] = "unlock"
  /\ writer' = 0
  /\ committed' = Snapshot
  /\ Goto(t, "idle")
  /\ Local(t, Idle)
  /\ UNCHANGED <<selfVars, numBuckets, seqVars, readers, obs, sinceQueried>>

GetRLock(t, begin, end) ==
  /\ pc[t] = "idle"
  /\ RLockFree
  /\ readers' = readers \cup {t}
  /\ obs' = [obs EXCEPT ![t] = Snapshot]
  /\ Goto(t, "get")
  /\ Local(t, [Idle EXCEPT !.i = begin, !.end = end])
  /\ UNCHANGED <<selfVars, numBuckets, seqVars, writer, committed, sinceQueried>>

\* The body of Get: the range is clamped, the blocks of the range are read
\* and the live block is appended; the blocks read are not kept.
GetRead(t) ==
  /\ pc[t] = "get"
  /\ \E g \in GetResults(Self, loc[t].i, loc[t].end, numBuckets) :
       Local(t, Idle)
  /\ Goto(t, "runlock")
  /\ UNCHANGED <<selfVars, numBuckets, seqVars, lockVars, sinceQueried>>

HasDataPointsRLock(t) ==
  /\ pc[t] = "idle"
  /\ RLockFree
  /\ readers' = readers \cup {t}
  /\ obs' = [obs EXCEPT ![t] = Snapshot]
  /\ Goto(t, "has")
  /\ Local(t, Idle)
  /\ UNCHANGED <<selfVars, numBuckets, seqVars, writer, committed, sinceQueried>>

\* The body of HasDataPoints; the answer is not kept.
HasDataPointsRead(t) ==
  /\ pc[t] = "has"
  /\ hasDataPoints(Self, numBuckets) \in BOOLEAN
  /\ Goto(t, "runlock")
  /\ UNCHANGED <<selfVars, numBuckets, seqVars, loc, lockVars, sinceQueried>>

\* The deferred b.RUnlock() of Get and HasDataPoints.
RUnlock(t) ==
  /\ pc[t] = "runlock"
  /\ readers' = readers \ {t}
  /\ obs' = [obs EXCEPT ![t] = <<>>]
  /\ Goto(t, "idle")
  /\ Local(t, Idle)
  /\ UNCHANGED <<selfVars, numBuckets, seqVars, writer, committed, sinceQueried>>

\* SetQueried and GetQueriedBucketsAgo take no lock.
SetQueriedBy(t) ==
  /\ pc[t] = "idle"
  /\ queriedBucketsAgo_' = 0
  /\ sinceQueried' = 0
  /\ UNCHANGED <<stream_, count_, current_, blocks_, numBuckets, seqVars, pc, loc,
                 lockVars>>

GetQueriedBucketsAgoBy(t) ==
  /\ pc[t] = "idle"
  /\ queriedBucketsAgo_ \in 0..MaxUint8
  /\ Local(t, Idle)
  /\ Goto(t, "return")
  /\ UNCHANGED <<selfVars, numBuckets, seqVars, lockVars, sinceQueried>>

Return(t) ==
  /\ pc[t] = "return"
  /\ Local(t, Idle)
  /\ Goto(t, "idle")
  /\ UNCHANGED <<selfVars, numBuckets, seqVars, lockVars, sinceQueried>>

InitConc == InitSelf /\ InitThreads /\ history = "none"

NextConc ==
  \E t \in Threads :
    \/ \E i \in ThreadBuckets, ts \in ThreadTimestamps, c \in ThreadCategories :
         PutLock(t, i, ts, c)
    \/ PutCheck(t)
    \/ \E i \in ThreadBuckets : SetCurrentBucketLock(t, i)
    \/ SetCurrentBucketCheck(t)
    \/ OpenEnter(t)
    \/ OpenStore(t)
    \/ OpenSlot(t)
    \/ OpenCount(t)
    \/ OpenReset(t)
    \/ OpenAdvance(t)
    \/ OpenAgeLoad(t)
    \/ OpenAgeStore(t)
    \/ PutAppendPoint(t)
    \/ PutCategory(t)
    \/ PutCount(t)
    \/ Unlock(t)
    \/ GetRLock(t, 0, MaxThreadBucket)
    \/ GetRead(t)
    \/ HasDataPointsRLock(t)
    \/ HasDataPointsRead(t)
    \/ RUnlock(t)
    \/ SetQueriedBy(t)
    \/ GetQueriedBucketsAgoBy(t)
    \/ Return(t)

SpecConc == InitConc /\ [][NextConc]_vars

\* ------------------------------------------------------------ properties
\* The slots after the writes of a call, in order.
RECURSIVE Written(_, _)
Written(blocks, writes) ==
  IF writes = <<>> THEN blocks
  ELSE Written([blocks EXCEPT ![Head(writes).bucket % numBuckets] = Head(writes).id],
               Tail(writes))

\* C1: a Put with a bucket number below current_ returns the invalid-bucket
\* error, calls Store never, and leaves current_, count_, the stream and its
\* category, every slot and queriedBucketsAgo_ as they were, with or without
\* a category argument.
C1_StalePutRejected ==
  (last.op = "Put" /\ last.i < last.pre.current_) =>
     /\ last.err = "invalid bucket"
     /\ last.stores = <<>>
     /\ Self = last.pre

C1_Witness ==
  /\ last.op = "Put"
  /\ last.i < last.pre.current_
  /\ last.category # NilCategory
  /\ last.category # last.pre.stream_.ExtraData
  /\ last.pre.count_ > 0

\* C2: current_ never decreases from one state to the next, and a Put or
\* SetCurrentBucket never leaves it above both its old value and the bucket
\* number passed (so under those two calls alone it never exceeds the largest
\* bucket number passed so far).
C2_CurrentNeverDecreases ==
  [][/\ current_' >= current_
     /\ last'.op \in {"Put", "SetCurrentBucket"} =>
          current_' <= MaxUint32(current_, last'.i)]_vars

\* C3: a Put whose point the stream rejects returns that error and leaves the
\* whole state as it was, for every target bucket i >= current_.
C3_AppendRejectionLeavesState ==
  (last.op = "Put" /\ last.err = "append") => Self = last.pre

\* C4: when Store fails while rotating at bucket c, the call returns at once:
\* the failed Store is the last one made, current_ is c, count_ and the stream
\* are the ones handed to that Store (nothing appended), no slot was written on
\* behalf of c, and the slots written for earlier buckets keep their values.
C4_StoreFailureAborts ==
  (last.op \in {"Put", "SetCurrentBucket"} /\ last.err = "store") =>
     LET k == Len(last.stores)
         f == last.stores[k]
     IN /\ k >= 1
        /\ ~f.ok
        /\ \A j \in 1..(k - 1) : last.stores[j].ok
        /\ current_ = f.bucket
        /\ count_ = f.count
        /\ count_ > 0
        /\ stream_.Stream = f.data
        /\ \A j \in 1..Len(last.writes) : last.writes[j].bucket < f.bucket
        /\ blocks_ = Written(last.pre.blocks_, last.writes)
        /\ last.writes = <<>> => Self = last.pre

C4_Witness ==
  /\ last.op = "Put"
  /\ last.err = "store"
  /\ last.i > current_ + 1
  /\ count_ = MaxPoints

\* C5: for every bucket k of the window [max(0, current_ - n), current_), slot
\* k mod n holds the id last recorded for k itself, or the invalid id if none
\* was recorded for k.
C5_SlotsHoldOwnBucket ==
  \A k \in Buckets :
    (k < current_ /\ k >= current_ - numBuckets) =>
       blocks_[k % numBuckets] = recorded[k]

\* C6: every Fetch a Get issues is for a bucket k with
\* current_ - n <= k < current_, also while current_ is still 0.
C6_FetchWithinWindow ==
  last.op = "Get" =>
    \A x \in 1..Len(last.fetches) :
       /\ last.fetches[x].bucket < current_
       /\ last.fetches[x].bucket >= current_ - numBuckets

\* The blocks C7 expects of the buckets lo..hi: one per bucket whose Fetch
\* with its slot's id succeeded, in ascending order.
RECURSIVE C7_Blocks(_, _)
C7_Blocks(lo, hi) ==
  IF lo > hi THEN <<>>
  ELSE (IF \E x \in 1..Len(last.fetches) :
              /\ last.fetches[x].bucket = lo
              /\ last.fetches[x].id = blocks_[lo % numBuckets]
              /\ last.fetches[x].ok
        THEN <<FetchedBlock(lo, blocks_[lo % numBuckets])>> ELSE <<>>)
       \o C7_Blocks(lo + 1, hi)

\* C7: Get returns no error, and its result is one block for each bucket of
\* [max(begin, current_ - n), min(end, current_ - 1)] whose Fetch succeeds, in
\* ascending order, then the active bucket's data and count exactly when
\* begin <= current_ <= end.
C7_GetResult ==
  last.op = "Get" =>
    /\ last.err = ""
    /\ last.out =
         C7_Blocks(MaxUint32(last.i, current_ - numBuckets),
                   MinUint32(last.j, current_ - 1))
         \o (IF last.i <= current_ /\ current_ <= last.j
             THEN <<[Data |-> stream_.Stream, Count |-> count_, ref |-> <<>>]>>
             ELSE <<>>)

\* No bucket of [begin, end] inside the window has a valid id in its slot.
NoStoredBlock ==
  \A k \in last.i..last.j :
    (k < current_ /\ k >= current_ - numBuckets) =>
       blocks_[k % numBuckets] = INVALID_ID

\* C8 as stated: with no point in the active bucket and no valid stored block
\* in [begin, end], Get returns zero elements.
C8_EmptyOnNoData ==
  (last.op = "Get" /\ count_ = 0 /\ NoStoredBlock) => last.out = <<>>

\* C8 amended: Get returns zero elements when the active bucket is outside
\* [begin, end] and no bucket of the range has a valid stored block; when
\* begin <= current_ <= end the result ends with the active bucket's element,
\* also when that bucket holds no point.
C8_EmptyWhenLiveOutOfRange ==
  last.op = "Get" =>
    /\ (last.i <= current_ /\ current_ <= last.j) =>
          /\ last.out # <<>>
          /\ last.out[Len(last.out)] =
               [Data |-> stream_.Stream, Count |-> count_, ref |-> <<>>]
    /\ (~(last.i <= current_ /\ current_ <= last.j) /\ NoStoredBlock) =>
          last.out = <<>>

C8_Witness ==
  /\ last.op = "Get"
  /\ ~(last.i <= current_ /\ current_ <= last.j)
  /\ NoStoredBlock
  /\ last.fetches # <<>>
  /\ count_ > 0
  /\ last.out = <<>>

\* C9: while a thread is inside Get or HasDataPoints, current_, count_, the
\* stream and the slots are the ones it found at RLock and the ones the last
\* exclusive holder left behind: no state from the middle of a Put.
C9_ReadersSeeCommitted ==
  \A t \in readers : obs[t] = Snapshot /\ Snapshot = committed

C9_Witness ==
  \E t \in readers :
    /\ pc[t] \in {"get", "has"}
    /\ current_ > 1
    /\ count_ > 0
    /\ \E i \in 0..(numBuckets - 1) : blocks_[i] # INVALID_ID

\* C10: SetQueried is linearizable with rotation: once SetQueried has run,
\* queriedBucketsAgo_ is at most the number of increments written since the
\* last SetQueried (no reset is lost).
C10_NoLostReset ==
  sinceQueried >= 0 => queriedBucketsAgo_ <= sinceQueried

\* C11: once SetQueried has run, queriedBucketsAgo_ is the number of rotation
\* increments written since the last SetQueried, saturated at 255; before any
\* SetQueried it is 255.
C11_RecencyCountsRotations ==
  /\ sinceQueried < 0 => queriedBucketsAgo_ = MaxUint8
  /\ sinceQueried >= 0 => queriedBucketsAgo_ = MinUint32(sinceQueried, MaxUint8)

\* C12: right after a Get returns, queriedBucketsAgo_ is 0.
C12_GetResetsRecency ==
  last.op = "Get" => queriedBucketsAgo_ = 0

C14_WritesTo(s) ==
  {j \in 1..Len(last.writes) : last.writes[j].bucket % numBuckets = s}

C14_Latest(s) ==
  CHOOSE j \in C14_WritesTo(s) : \A k \in C14_WritesTo(s) : k <= j

\* C14: a Put or SetCurrentBucket flushes the buckets from the old current_
\* upwards, one slot write each, bucket b into slot b mod n; the id written is
\* the id of the successful Store made for b, or the invalid id if no Store
\* was made for b; and when the call returns every slot written holds the id
\* of the highest bucket written to it (of b + n, not of b), the other slots
\* what they held before.
C14_SlotReuse ==
  last.op \in {"Put", "SetCurrentBucket"} =>
    /\ \A j \in 1..Len(last.writes) :
          /\ last.writes[j].bucket = last.pre.current_ + j - 1
          /\ \/ \E x \in 1..Len(last.stores) :
                   /\ last.stores[x].bucket = last.writes[j].bucket
                   /\ last.stores[x].ok
                   /\ last.stores[x].id = last.writes[j].id
             \/ /\ last.writes[j].id = INVALID_ID
                /\ \A x \in 1..Len(last.stores) :
                      last.stores[x].bucket # last.writes[j].bucket
    /\ \A s \in 0..(numBuckets - 1) :
          blocks_[s] = IF C14_WritesTo(s) = {} THEN last.pre.blocks_[s]
                       ELSE last.writes[C14_Latest(s)].id

\* Buckets b (with points) and b + n (empty) flushed in one call.
C14_Witness ==
  /\ last.op \in {"Put", "SetCurrentBucket"}
  /\ \E j \in 1..Len(last.writes) :
        /\ last.writes[j].id # INVALID_ID
        /\ j + numBuckets \in 1..Len(last.writes)
        /\ blocks_[last.writes[j].bucket % numBuckets] = INVALID_ID

\* C15: a Put that returns no error ends with current_ = i and its point
\* appended. With i = current_ the count is one more than before and nothing
\* is stored or written; after a rotation from a non-zero bucket c < i the
\* active bucket holds that point alone, and Store was called exactly once,
\* for c with c's points and count, if c held points and never otherwise; a
\* first write from the sentinel 0 stores nothing and writes no slot.
C15_SuccessfulPut ==
  (last.op = "Put" /\ last.err = "") =>
    /\ last.i >= last.pre.current_
    /\ current_ = last.i
    /\ \A x \in 1..Len(last.stores) : last.stores[x].ok
    /\ (last.i = last.pre.current_ \/ last.pre.current_ = 0) =>
          /\ count_ = last.pre.count_ + 1
          /\ stream_.Stream = Append(last.pre.stream_.Stream, last.ts)
          /\ last.stores = <<>>
          /\ last.writes = <<>>
          /\ blocks_ = last.pre.blocks_
    /\ (last.pre.current_ # 0 /\ last.pre.current_ < last.i) =>
          /\ count_ = 1
          /\ stream_.Stream = <<last.ts>>
          /\ last.stores =
                IF last.pre.count_ > 0
                THEN <<[bucket |-> last.pre.current_,
                        data |-> last.pre.stream_.Stream,
                        count |-> last.pre.count_,
                        ok |-> TRUE,
                        id |-> last.writes[1].id]>>
                ELSE <<>>

C15_Witness ==
  /\ last.op = "Put"
  /\ last.err = ""
  /\ last.pre.current_ # 0
  /\ last.pre.current_ + 1 < last.i
  /\ Len(last.stores) = 1
  /\ count_ = 1

\* C16: when a Put(i) has failed on the Store of bucket c and the caller keeps
\* retrying it, a retry eventually returns no error with current_ = i; that
\* retry started at c, made one Store call, for c with the points and the
\* count c held, and that call succeeded.
C16_RetryMakesProgress ==
  \A c \in Buckets :
    (Failed /\ current_ = c) ~>
      (/\ last.op = "Retry"
       /\ last.err = ""
       /\ current_ = last.i
       /\ last.pre.current_ = c
       /\ Len(last.stores) = 1
       /\ last.stores[1].ok
       /\ last.stores[1].bucket = c
       /\ last.stores[1].data = last.pre.stream_.Stream
       /\ last.stores[1].count = last.pre.count_
       /\ last.pre.count_ > 0)

\* A retry that succeeded after a retry that failed.
C16_Witness ==
  /\ last.op = "Retry"
  /\ last.err = ""
  /\ last.i > last.pre.current_ + 1
  /\ last.pre.count_ > 0
  /\ current_ = last.i

\* C17: SetDataBlock(position, n, id) writes id into slot position mod n and
\* leaves every other slot and queriedBucketsAgo_ alone; with
\* position >= current_ it leaves current_ = position + 1, count_ = 0 and an
\* empty stream, with position < current_ it leaves the three as they were.
C17_SetDataBlockFrame ==
  last.op = "SetDataBlock" =>
    /\ blocks_ = [last.pre.blocks_ EXCEPT ![last.i % numBuckets] = last.j]
    /\ queriedBucketsAgo_ = last.pre.queriedBucketsAgo_
    /\ last.stores = <<>>
    /\ stream_.ExtraData = last.pre.stream_.ExtraData
    /\ IF last.i >= last.pre.current_
       THEN /\ current_ = last.i + 1
            /\ count_ = 0
            /\ stream_.Stream = <<>>
       ELSE /\ current_ = last.pre.current_
            /\ count_ = last.pre.count_
            /\ stream_ = last.pre.stream_

C19_Kept == IF current_ = last.pre.current_ THEN last.pre.stream_.Stream ELSE <<>>

\* The point the call put into bucket last.i.
C19_New ==
  IF last.op \in {"Put", "Retry"} /\ last.err = "" THEN <<last.ts>> ELSE <<>>

\* C19: after every call the active stream holds only points put into the
\* bucket that is now current_ (points it held before, if current_ is the
\* same, and the point of this call), count_ counts them, and every Store
\* call carried the stream of the bucket it names.
C19_PointsBelongToCurrent ==
  last.op # "Reset" =>
    /\ stream_.Stream \in {<<>>, C19_New, C19_Kept \o C19_New}
    /\ count_ = Len(stream_.Stream)
    /\ \A x \in 1..Len(last.stores) :
          /\ last.stores[x].bucket = last.pre.current_
          /\ last.stores[x].data = last.pre.stream_.Stream

\* C20: no call drops a buffered point: the points the active bucket held
\* before the call are still at the head of the active stream, or were the
\* data of a successful Store for their bucket.
C20_NoSilentLoss ==
  (last.op # "Reset" /\ last.pre.stream_.Stream # <<>>) =>
    \/ /\ Len(stream_.Stream) >= Len(last.pre.stream_.Stream)
       /\ SubSeq(stream_.Stream, 1, Len(last.pre.stream_.Stream))
            = last.pre.stream_.Stream
    \/ \E x \in 1..Len(last.stores) :
          /\ last.stores[x].ok
          /\ last.stores[x].bucket = last.pre.current_
          /\ last.stores[x].data = last.pre.stream_.Stream

====
